---- MODULE Spec2Model ----
(***************************************************************************)
(* A model of the paynow client: the canonical strings it signs, the       *)
(* keyed digest, the decoding of the vendor's form-encoded bodies and the  *)
(* four operations (standard submit, express submit, poll_status,          *)
(* trace_payment).                                                         *)
(*                                                                         *)
(* Text is a sequence of atoms (short strings); formatting is the          *)
(* concatenation \o of such sequences, so "directly adjacent, no           *)
(* separator" is what \o does.  A form-encoded body is a function from the *)
(* field names it carries to their wire text.                              *)
(***************************************************************************)
EXTENDS Integers, Sequences, FiniteSets, TLC

VARIABLES
    client,     \* the Client: [id, key, base]
    pc,         \* where the one call in progress stands
    op,         \* which operation is in progress
    payment,    \* the payment being built or submitted (standard fields)
    method,     \* the express payment's method, or NoMethod
    arg,        \* poll_status' poll URL or trace_payment's merchant trace
    signed,     \* the text handed to Client::hash for the outgoing request
    wire,       \* the form the transport was given, or Empty
    sends,      \* how often the transport was invoked in this call
    code,       \* the HTTP status received
    body,       \* the response text received
    result      \* the value the call returned

vars == <<client, pc, op, payment, method, arg, signed, wire, sends, code, body, result>>

----------------------------------------------------------------------------
(* Bounds *)

NumKeys == 2
NumCalls == 2

----------------------------------------------------------------------------
(* Text and number formatting *)

None == [none |-> TRUE]
Some(x) == [some |-> x]
IsSome(o) == "some" \in DOMAIN o
UnwrapOr(o, d) == IF IsSome(o) THEN o.some ELSE d

Digits == <<"0", "1", "2", "3", "4", "5", "6", "7", "8", "9">>
DigitSet == {Digits[i] : i \in 1..10}
DigitValue(c) == (CHOOSE i \in 1..10 : Digits[i] = c) - 1

RECURSIVE U64ToString(_)
U64ToString(n) ==
    IF n < 10 THEN <<Digits[n + 1]>>
    ELSE U64ToString(n \div 10) \o <<Digits[(n % 10) + 1]>>

RECURSIVE DigitsValue(_)
DigitsValue(w) ==
    IF w = <<>> THEN 0
    ELSE 10 * DigitsValue(SubSeq(w, 1, Len(w) - 1)) + DigitValue(w[Len(w)])

AllDigits(w) == \A i \in 1..Len(w) : w[i] \in DigitSet

\* str::parse::<u64>: an optional "+", then one or more digits.
ParseU64(w) ==
    LET ds == IF w # <<>> /\ w[1] = "+" THEN Tail(w) ELSE w
    IN  IF ds # <<>> /\ AllDigits(ds) THEN Some(DigitsValue(ds)) ELSE None

\* A Decimal is a mantissa and a scale; Display writes every digit of the
\* scale, so 1.5 and 1.50 are different texts.
RECURSIVE ZeroPad(_, _)
ZeroPad(w, n) == IF Len(w) >= n THEN w ELSE ZeroPad(<<"0">> \o w, n)

DecimalToString(d) ==
    LET ds == ZeroPad(U64ToString(d.mant), d.scale + 1)
        k  == Len(ds) - d.scale
    IN  IF d.scale = 0 THEN ds
        ELSE SubSeq(ds, 1, k) \o <<".">> \o SubSeq(ds, k + 1, Len(ds))

ParseDecimal(w) ==
    LET dots == {i \in 1..Len(w) : w[i] = "."}
    IN  IF dots = {} THEN
            IF w # <<>> /\ AllDigits(w)
            THEN Some([mant |-> DigitsValue(w), scale |-> 0]) ELSE None
        ELSE IF Cardinality(dots) > 1 THEN None
        ELSE LET k  == CHOOSE i \in dots : TRUE
                 ip == SubSeq(w, 1, k - 1)
                 fp == SubSeq(w, k + 1, Len(w))
             IN  IF ip # <<>> /\ fp # <<>> /\ AllDigits(ip) /\ AllDigits(fp)
                 THEN Some([mant |-> DigitsValue(ip \o fp), scale |-> Len(fp)])
                 ELSE None

BoolToString(b) == IF b THEN <<"true">> ELSE <<"false">>

\* A Url is held parsed; its text is its serialization.  Parsing a text with
\* an authority and no path gives the path "/".
UrlToString(u) == u
ParseUrl(w) ==
    IF w = <<>> \/ w[1] \notin {"https://", "http://"} \/ Len(w) < 2 THEN None
    ELSE IF Len(w) = 2 THEN Some(w \o <<"/">>)
    ELSE IF w[3] = "/" THEN Some(w)
    ELSE None

Months == <<"Jan", "Feb", "Mar", "Apr", "May", "Jun",
            "Jul", "Aug", "Sep", "Oct", "Nov", "Dec">>

\* Date::format("%d%b%Y")
FormatDate(d) ==
    ZeroPad(U64ToString(d.day), 2) \o <<Months[d.month]>> \o ZeroPad(U64ToString(d.year), 4)

ParseDate(w) ==
    IF /\ Len(w) = 7
       /\ AllDigits(SubSeq(w, 1, 2))
       /\ \E m \in 1..12 : Months[m] = w[3]
       /\ AllDigits(SubSeq(w, 4, 7))
       /\ DigitsValue(SubSeq(w, 1, 2)) \in 1..31
    THEN Some([day   |-> DigitsValue(SubSeq(w, 1, 2)),
               month |-> CHOOSE m \in 1..12 : Months[m] = w[3],
               year  |-> DigitsValue(SubSeq(w, 4, 7))])
    ELSE None

----------------------------------------------------------------------------
(* The client and the keyed digest *)

KeyText(i) == <<"key-">> \o U64ToString(i)
Keys == {KeyText(i) : i \in 1..NumKeys}
Ids == {7, 12}
Base == <<"https://", "www.paynow.co.zw", "/", "interface/">>

NewClient(id, key) == [id |-> id, key |-> key, base |-> Base]

\* Sha512 rendered as upper-case hex: one digest per input text.
Sha512Hex(text) == [sha512 |-> text]

\* Fault: the key placed before the message
Hash_KeyFirst(c, msg) == Sha512Hex(c.key \o msg)

\* Client::hash: the message directly followed by the key.
Hash(c, msg) == Sha512Hex(msg \o c.key)

HashMismatch(msg) == [kind |-> "HashMismatch", msg |-> msg]
Valid == [kind |-> "Valid"]

\* Fault: validate_hash with the comparison inverted
ValidateHash_Inverted(c, hash, msg) ==
    IF hash = Hash(c, msg) THEN HashMismatch(msg) ELSE Valid

\* Client::validate_hash
ValidateHash(c, hash, msg) ==
    IF hash # Hash(c, msg) THEN HashMismatch(msg) ELSE Valid

----------------------------------------------------------------------------
(* Requests: the standard payment, the express payment and its methods *)

Message == <<"Message">>

\* Client::payment
NewPayment(c, reference, amount, return_url, result_url) ==
    [id |-> c.id, reference |-> reference, amount |-> amount,
     additional_info |-> None, return_url |-> Some(return_url),
     result_url |-> result_url, auth_email |-> None, tokenize |-> None,
     merchant_trace |-> None, status |-> Message]

\* Fault: an express payment built with a return URL
NewExpressPayment_WithReturn(c, reference, amount, result_url, auth_email, merchant_trace) ==
    [id |-> c.id, reference |-> reference, amount |-> amount,
     additional_info |-> None, return_url |-> Some(result_url),
     result_url |-> result_url, auth_email |-> Some(auth_email), tokenize |-> None,
     merchant_trace |-> Some(merchant_trace), status |-> Message]

\* Client::express_payment: the standard fields of an express payment
NewExpressPayment(c, reference, amount, result_url, auth_email, merchant_trace) ==
    [id |-> c.id, reference |-> reference, amount |-> amount,
     additional_info |-> None, return_url |-> None,
     result_url |-> result_url, auth_email |-> Some(auth_email), tokenize |-> None,
     merchant_trace |-> Some(merchant_trace), status |-> Message]

\* Fault: concat_payment! without the id
ConcatPayment_NoId(p) ==
    p.reference
    \o DecimalToString(p.amount)
    \o UnwrapOr(p.additional_info, <<>>)
    \o (IF IsSome(p.return_url) THEN UrlToString(p.return_url.some) ELSE <<>>)
    \o UrlToString(p.result_url)
    \o UnwrapOr(p.auth_email, <<>>)
    \o (IF IsSome(p.tokenize) THEN BoolToString(p.tokenize.some) ELSE <<>>)
    \o UnwrapOr(p.merchant_trace, <<>>)
    \o p.status

\* Fault: concat_payment! with tokenize and merchant_trace exchanged
ConcatPayment_Reordered(p) ==
    U64ToString(p.id)
    \o p.reference
    \o DecimalToString(p.amount)
    \o UnwrapOr(p.additional_info, <<>>)
    \o (IF IsSome(p.return_url) THEN UrlToString(p.return_url.some) ELSE <<>>)
    \o UrlToString(p.result_url)
    \o UnwrapOr(p.auth_email, <<>>)
    \o UnwrapOr(p.merchant_trace, <<>>)
    \o (IF IsSome(p.tokenize) THEN BoolToString(p.tokenize.some) ELSE <<>>)
    \o p.status

\* concat_payment!
ConcatPayment(p) ==
    U64ToString(p.id)
    \o p.reference
    \o DecimalToString(p.amount)
    \o UnwrapOr(p.additional_info, <<>>)
    \o (IF IsSome(p.return_url) THEN UrlToString(p.return_url.some) ELSE <<>>)
    \o UrlToString(p.result_url)
    \o UnwrapOr(p.auth_email, <<>>)
    \o (IF IsSome(p.tokenize) THEN BoolToString(p.tokenize.some) ELSE <<>>)
    \o UnwrapOr(p.merchant_trace, <<>>)
    \o p.status

NoMethod == [type |-> "None"]
Ecocash(phone) == [type |-> "Ecocash", phone |-> phone]
OneMoney(phone) == [type |-> "OneMoney", phone |-> phone]
VisaOrMastercard(card, address, token) ==
    [type |-> "VisaOrMastercard", card |-> card, address |-> address, token |-> token]

\* Fault: Method::name with one name for both phone methods
MethodName_OneName(m) ==
    CASE m.type = "Ecocash" -> <<"ecocash">>
      [] m.type = "OneMoney" -> <<"ecocash">>
      [] m.type = "VisaOrMastercard" -> <<"vmc">>

\* Method::name
MethodName(m) ==
    CASE m.type = "Ecocash" -> <<"ecocash">>
      [] m.type = "OneMoney" -> <<"onemoney">>
      [] m.type = "VisaOrMastercard" -> <<"vmc">>

DefaultMethodArgs ==
    [phone |-> <<>>, number |-> <<>>, name |-> <<>>, cvv |-> <<>>, expiry |-> <<>>,
     line1 |-> <<>>, line2 |-> <<>>, city |-> <<>>, province |-> <<>>,
     country |-> <<>>, token |-> <<>>]

\* impl From<&Method> for MethodArgs
MethodArgsFrom(m) ==
    CASE m.type = "Ecocash" -> [DefaultMethodArgs EXCEPT !.phone = m.phone]
      [] m.type = "OneMoney" -> [DefaultMethodArgs EXCEPT !.phone = m.phone]
      [] m.type = "VisaOrMastercard" ->
            [DefaultMethodArgs EXCEPT
                !.token = m.token,
                !.number = m.card.number,
                !.name = m.card.name,
                !.cvv = m.card.cvv,
                !.expiry = m.card.expiry,
                !.line1 = m.address.line1,
                !.line2 = UnwrapOr(m.address.line2, <<>>),
                !.city = m.address.city,
                !.province = UnwrapOr(m.address.province, <<>>),
                !.country = m.address.country]

\* concat_express_payment!
ConcatExpressPayment(name, p, a) ==
    name
    \o ConcatPayment(p)
    \o (a.phone \o a.number \o a.name \o a.cvv \o a.expiry \o a.line1 \o a.line2
        \o a.city \o a.province \o a.country \o a.token)

\* The text signed for a trace lookup (Client::trace_payment)
ConcatTrace(id, merchant_trace, status) ==
    U64ToString(id) \o merchant_trace \o status

----------------------------------------------------------------------------
(* The forms given to the transport: a field is there only when it is Some *)

Empty == [empty |-> TRUE]
Opt(name, o) == IF IsSome(o) THEN name :> o.some ELSE <<>>

\* #[derive(Serialize)] struct Payment
PaymentForm(p) ==
    ("id" :> U64ToString(p.id))
    @@ ("reference" :> p.reference)
    @@ ("amount" :> DecimalToString(p.amount))
    @@ Opt("additionalinfo", p.additional_info)
    @@ Opt("returnurl", IF IsSome(p.return_url)
                        THEN Some(UrlToString(p.return_url.some)) ELSE None)
    @@ ("resulturl" :> UrlToString(p.result_url))
    @@ Opt("authemail", p.auth_email)
    @@ Opt("tokenize", IF IsSome(p.tokenize)
                       THEN Some(BoolToString(p.tokenize.some)) ELSE None)
    @@ Opt("merchanttrace", p.merchant_trace)
    @@ ("status" :> p.status)

\* #[derive(Serialize)] #[serde(untagged)] enum Method
MethodForm(m) ==
    CASE m.type = "Ecocash" -> ("phone" :> m.phone)
      [] m.type = "OneMoney" -> ("phone" :> m.phone)
      [] m.type = "VisaOrMastercard" ->
            ("cardnumber" :> m.card.number)
            @@ ("cardname" :> m.card.name)
            @@ ("cardcvv" :> m.card.cvv)
            @@ ("cardexpiry" :> m.card.expiry)
            @@ ("billingline1" :> m.address.line1)
            @@ Opt("billingline2", m.address.line2)
            @@ ("billingcity" :> m.address.city)
            @@ Opt("billingprovince", m.address.province)
            @@ ("billingcountry" :> m.address.country)
            @@ ("token" :> m.token)

\* struct Msg of impl Submit for &Payment
PaymentMsg(p, hash) == PaymentForm(p) @@ ("hash" :> hash)

\* struct Msg of impl Submit for &express::Payment
ExpressMsg(p, m, hash) ==
    ("method" :> MethodName(m)) @@ PaymentForm(p) @@ MethodForm(m) @@ ("hash" :> hash)

\* struct MerchantTrace
TraceMsg(id, merchant_trace, status, hash) ==
    ("id" :> U64ToString(id)) @@ ("merchanttrace" :> merchant_trace)
    @@ ("status" :> status) @@ ("hash" :> hash)

----------------------------------------------------------------------------
(* Decoding the vendor's bodies.  A shape decodes when every field it      *)
(* requires is there and parses; fields it does not know are ignored.      *)

Ok(v) == [ok |-> v]
Err(e) == [err |-> e]
IsOk(r) == "ok" \in DOMAIN r

Has(b, f) == f \in DOMAIN b

\* Fault: a status tag read as free text
StatusTag_Unchecked(b, name) == Has(b, "status")

\* status!: a tag decodes from exactly its own name
StatusTag(b, name) == Has(b, "status") /\ b["status"] = <<name>>

DecodeError(shape) == [decoding |-> shape]

\* enum Status and its serde names
StatusNames ==
    {"Created", "Cancelled", "Sent", "Awaiting Delivery", "Delivered", "Paid",
     "Disputed", "Refunded"}

\* impl Display for Status
StatusToString(s) == <<s>>

ParseStatus(w) == IF Len(w) = 1 /\ w[1] \in StatusNames THEN Some(w[1]) ELSE None

\* payment::Response
DecodeResponse(b) ==
    IF /\ StatusTag(b, "Ok")
       /\ Has(b, "browserurl") /\ IsSome(ParseUrl(b["browserurl"]))
       /\ Has(b, "pollurl") /\ IsSome(ParseUrl(b["pollurl"]))
       /\ Has(b, "hash")
    THEN Ok([status |-> <<"Ok">>,
             browser_url |-> ParseUrl(b["browserurl"]).some,
             poll_url |-> ParseUrl(b["pollurl"]).some,
             hash |-> b["hash"]])
    ELSE Err(DecodeError("payment::Response"))

\* payment::express::Response
DecodeExpressResponse(b) ==
    IF /\ StatusTag(b, "Ok")
       /\ Has(b, "instructions")
       /\ Has(b, "paynowreference") /\ IsSome(ParseU64(b["paynowreference"]))
       /\ Has(b, "pollurl") /\ IsSome(ParseUrl(b["pollurl"]))
       /\ Has(b, "hash")
    THEN Ok([status |-> <<"Ok">>,
             instructions |-> b["instructions"],
             paynow_reference |-> ParseU64(b["paynowreference"]).some,
             poll_url |-> ParseUrl(b["pollurl"]).some,
             hash |-> b["hash"]])
    ELSE Err(DecodeError("express::Response"))

\* status::Token, flattened as an Option: None unless both fields decode
DecodeToken(b) ==
    IF Has(b, "token") /\ Has(b, "tokenexpiry") /\ IsSome(ParseDate(b["tokenexpiry"]))
    THEN Some([token |-> b["token"], expiry |-> ParseDate(b["tokenexpiry"]).some])
    ELSE None

\* status::Update
DecodeUpdate(b) ==
    IF /\ Has(b, "reference")
       /\ Has(b, "paynowreference") /\ IsSome(ParseU64(b["paynowreference"]))
       /\ Has(b, "amount") /\ IsSome(ParseDecimal(b["amount"]))
       /\ Has(b, "status") /\ IsSome(ParseStatus(b["status"]))
       /\ Has(b, "pollurl") /\ IsSome(ParseUrl(b["pollurl"]))
       /\ Has(b, "hash")
    THEN Ok([reference |-> b["reference"],
             paynow_reference |-> ParseU64(b["paynowreference"]).some,
             amount |-> ParseDecimal(b["amount"]).some,
             status |-> ParseStatus(b["status"]).some,
             poll_url |-> ParseUrl(b["pollurl"]).some,
             token |-> DecodeToken(b),
             hash |-> b["hash"]])
    ELSE Err(DecodeError("status::Update"))

\* payment::error::Response
DecodeErrorResponse(b) ==
    IF StatusTag(b, "Error") /\ Has(b, "error")
    THEN Ok([status |-> <<"Error">>, error |-> b["error"]])
    ELSE Err(DecodeError("error::Response"))

\* Fault: the not-found shape tagged with status::Error
DecodeNotFound_ErrorTag(b) ==
    IF StatusTag(b, "Error") /\ Has(b, "hash")
    THEN Ok([status |-> <<"Error">>, hash |-> b["hash"]])
    ELSE Err(DecodeError("NotFound"))

\* struct NotFound of Client::trace_payment
DecodeNotFound(b) ==
    IF StatusTag(b, "NotFound") /\ Has(b, "hash")
    THEN Ok([status |-> <<"NotFound">>, hash |-> b["hash"]])
    ELSE Err(DecodeError("NotFound"))

\* Fault: the amount rows of the table exchanged
PaymentErrorFrom_Swapped(res) ==
    CASE res.error = <<"Invalid Id.">> -> [kind |-> "InvalidId"]
      [] res.error = <<"Invalid amount field.">> -> [kind |-> "AmountOverflow"]
      [] res.error = <<"Conversion overflows.">> -> [kind |-> "InvalidAmount"]
      [] res.error = <<"Insufficient balance">> -> [kind |-> "InsufficientBalance"]
      [] OTHER -> [kind |-> "Response", msg |-> res.error]

\* impl From<Response> for payment::error::Error
PaymentErrorFrom(res) ==
    CASE res.error = <<"Invalid Id.">> -> [kind |-> "InvalidId"]
      [] res.error = <<"Invalid amount field.">> -> [kind |-> "InvalidAmount"]
      [] res.error = <<"Conversion overflows.">> -> [kind |-> "AmountOverflow"]
      [] res.error = <<"Insufficient balance">> -> [kind |-> "InsufficientBalance"]
      [] OTHER -> [kind |-> "Response", msg |-> res.error]

----------------------------------------------------------------------------
(* The canonical strings of the inbound payloads *)

\* the format_args! of impl Submit for &Payment
ConcatResponse(res) ==
    res.status \o UrlToString(res.browser_url) \o UrlToString(res.poll_url)

\* the format_args! of impl Submit for &express::Payment
ConcatExpressResponse(res) ==
    res.status \o res.instructions \o U64ToString(res.paynow_reference)
    \o UrlToString(res.poll_url)

\* the format_args! of Update::validate
ConcatUpdate(u) ==
    u.reference \o U64ToString(u.paynow_reference) \o DecimalToString(u.amount)
    \o StatusToString(u.status) \o UrlToString(u.poll_url)
    \o (IF IsSome(u.token)
        THEN u.token.some.token \o FormatDate(u.token.some.expiry)
        ELSE <<>>)

\* Fault: validate that compares nothing
UpdateValidate_Skipped(u, c) == Valid

\* Update::validate
UpdateValidate(u, c) == ValidateHash(c, u.hash, ConcatUpdate(u))

----------------------------------------------------------------------------
(* The operations, from the transport's answer to the value returned *)

StatusOK == 200

\* Fault: is_success without its upper bound
IsSuccess_NoUpperBound(n) == n >= 200

\* StatusCode::is_success
IsSuccess(n) == n >= 200 /\ n < 300

UnexpectedResponse(e, message) == [kind |-> "UnexpectedResponse", error |-> e, msg |-> message]
Response(n, message) == [kind |-> "Response", code |-> n, msg |-> message]

\* Client::submit, once the status and the text are there; decoded is what
\* serde_urlencoded::from_str makes of the text for the shape asked for
ClientSubmit(decoded, n, message) ==
    IF ~IsSuccess(n) THEN Err(Response(n, message))
    ELSE IF IsOk(decoded) THEN decoded
    ELSE Err(UnexpectedResponse(decoded.err, message))

\* Fault: the error of the vendor-error attempt replaces the first decode error
PaymentMapErr_LaterError(c, p, e) ==
    IF e.kind = "UnexpectedResponse" THEN
        IF IsOk(DecodeErrorResponse(e.msg)) THEN
            LET pe == PaymentErrorFrom(DecodeErrorResponse(e.msg).ok)
            IN  CASE pe.kind = "InvalidId" -> [kind |-> "InvalidId", id |-> c.id]
                  [] pe.kind = "AmountOverflow" ->
                        [kind |-> "AmountOverflow", amount |-> p.amount]
                  [] pe.kind = "InvalidAmount" ->
                        [kind |-> "InvalidAmount", amount |-> p.amount]
                  [] pe.kind = "InsufficientBalance" -> [kind |-> "InsufficientBalance"]
                  [] pe.kind = "Response" -> Response(StatusOK, pe.msg)
        ELSE UnexpectedResponse(DecodeErrorResponse(e.msg).err, e.msg)
    ELSE e

\* the map_err closure of impl Submit for &Payment and for &express::Payment
PaymentMapErr(c, p, e) ==
    IF e.kind = "UnexpectedResponse" THEN
        IF IsOk(DecodeErrorResponse(e.msg)) THEN
            LET pe == PaymentErrorFrom(DecodeErrorResponse(e.msg).ok)
            IN  CASE pe.kind = "InvalidId" -> [kind |-> "InvalidId", id |-> c.id]
                  [] pe.kind = "AmountOverflow" ->
                        [kind |-> "AmountOverflow", amount |-> p.amount]
                  [] pe.kind = "InvalidAmount" ->
                        [kind |-> "InvalidAmount", amount |-> p.amount]
                  [] pe.kind = "InsufficientBalance" -> [kind |-> "InsufficientBalance"]
                  [] pe.kind = "Response" -> Response(StatusOK, pe.msg)
        ELSE e
    ELSE e

\* the vendor-error arm of the map_err closures of poll_status and trace_payment
StatusMapErr(c, e) ==
    IF IsOk(DecodeErrorResponse(e.msg)) THEN
        LET pe == PaymentErrorFrom(DecodeErrorResponse(e.msg).ok)
        IN  CASE pe.kind = "InvalidId" -> [kind |-> "InvalidId", id |-> c.id]
              [] pe.kind = "InsufficientBalance" -> [kind |-> "InsufficientBalance"]
              [] pe.kind = "Response" -> Response(StatusOK, pe.msg)
              [] OTHER -> e
    ELSE e

\* the map_err closure of Client::poll_status
PollMapErr(c, e) ==
    IF e.kind = "UnexpectedResponse" THEN StatusMapErr(c, e) ELSE e

\* Fault: the not-found shape trusted without its hash being checked
TraceMapErr_Unverified(c, merchant_trace, e) ==
    IF e.kind = "UnexpectedResponse" THEN
        IF IsOk(DecodeNotFound(e.msg)) THEN [kind |-> "NotFound", trace |-> merchant_trace]
        ELSE StatusMapErr(c, e)
    ELSE e

\* the map_err closure of Client::trace_payment
TraceMapErr(c, merchant_trace, e) ==
    IF e.kind = "UnexpectedResponse" THEN
        IF IsOk(DecodeNotFound(e.msg)) THEN
            LET nf == DecodeNotFound(e.msg).ok
                v  == ValidateHash(c, nf.hash, nf.status)
            IN  IF v = Valid THEN [kind |-> "NotFound", trace |-> merchant_trace]
                ELSE v
        ELSE StatusMapErr(c, e)
    ELSE e

\* Fault: the standard submission hands out the decoded response unverified
SubmitPaymentResult_Unverified(c, p, n, message) ==
    LET r == ClientSubmit(DecodeResponse(message), n, message)
    IN  IF ~IsOk(r) THEN Err(PaymentMapErr(c, p, r.err)) ELSE r

\* impl Submit for &Payment, after the transport's answer
SubmitPaymentResult(c, p, n, message) ==
    LET r == ClientSubmit(DecodeResponse(message), n, message)
    IN  IF ~IsOk(r) THEN Err(PaymentMapErr(c, p, r.err))
        ELSE LET v == ValidateHash(c, r.ok.hash, ConcatResponse(r.ok))
             IN  IF v = Valid THEN r ELSE Err(v)

\* impl Submit for &express::Payment, after the transport's answer
SubmitExpressResult(c, p, n, message) ==
    LET r == ClientSubmit(DecodeExpressResponse(message), n, message)
    IN  IF ~IsOk(r) THEN Err(PaymentMapErr(c, p, r.err))
        ELSE LET v == ValidateHash(c, r.ok.hash, ConcatExpressResponse(r.ok))
             IN  IF v = Valid THEN r ELSE Err(v)

\* Client::poll_status, after the transport's answer
PollStatusResult(c, n, message) ==
    LET r == ClientSubmit(DecodeUpdate(message), n, message)
    IN  IF ~IsOk(r) THEN Err(PollMapErr(c, r.err))
        ELSE LET v == UpdateValidate(r.ok, c)
             IN  IF v = Valid THEN r ELSE Err(v)

\* Client::trace_payment, after the transport's answer
TracePaymentResult(c, merchant_trace, n, message) ==
    LET r == ClientSubmit(DecodeUpdate(message), n, message)
    IN  IF ~IsOk(r) THEN Err(TraceMapErr(c, merchant_trace, r.err))
        ELSE LET v == UpdateValidate(r.ok, c)
             IN  IF v = Valid THEN r ELSE Err(v)

----------------------------------------------------------------------------
(* The values the caller and the vendor may supply *)

References == {<<"REF-", "1">>}
Amounts == {[mant |-> 3141874, scale |-> 4], [mant |-> 150, scale |-> 2]}
ReturnUrls == {<<"https://", "shop", "/", "return">>}
ResultUrls == {<<"https://", "x", "/">>}
Infos == {<<"info">>}
Emails == {<<"a@b.c">>}
Traces == {<<"trace-", "1">>, <<"trace-", "2">>}
Phones == {<<"0771111111">>}
Card == [number |-> <<"4111">>, name |-> <<"A N Other">>, cvv |-> <<"123">>,
         expiry |-> <<"0130">>]
Address == [line1 |-> <<"1 First St">>, line2 |-> None, city |-> <<"Harare">>,
            province |-> Some(<<"Harare Province">>), country |-> <<"Zimbabwe">>]
Methods ==
    {Ecocash(ph) : ph \in Phones} \cup {OneMoney(ph) : ph \in Phones}
    \cup {VisaOrMastercard(Card, Address, <<"tok">>)}
PollUrls == {<<"https://", "poll", "/">>, <<"https://", "poll", "/", "2">>}
Codes == {200, 204, 500}

\* What the vendor signs: the values of a payload's fields as sent, in the
\* protocol's order, directly followed by a key.
RECURSIVE WireText(_, _)
WireText(b, order) ==
    IF order = <<>> THEN <<>>
    ELSE (IF Head(order) \in DOMAIN b THEN b[Head(order)] ELSE <<>>)
         \o WireText(b, Tail(order))

SignedBy(text, key) == Sha512Hex(text \o key)

StdOrder == <<"status", "browserurl", "pollurl">>
ExpOrder == <<"status", "instructions", "paynowreference", "pollurl">>
UpdOrder == <<"reference", "paynowreference", "amount", "status", "pollurl",
              "token", "tokenexpiry">>

StdBody(st, browser, poll) ==
    ("status" :> st) @@ ("browserurl" :> browser) @@ ("pollurl" :> poll)

StdStatuses == {<<"Ok">>, <<"ok">>}
StdBrowsers == {<<"https://", "pay">>, <<"https://", "pay", "/">>, <<"https://", "pay", "/", "1">>}
StdPolls == {<<"https://", "poll", "/">>}
StdFields == {StdBody(st, b, p) : st \in StdStatuses, b \in StdBrowsers, p \in StdPolls}
StdBodies ==
    {b @@ ("hash" :> SignedBy(WireText(t, StdOrder), k)) :
        b \in StdFields, t \in StdFields, k \in Keys}

ExpBody(st, ins, ref, poll) ==
    ("status" :> st) @@ ("instructions" :> ins) @@ ("paynowreference" :> ref)
    @@ ("pollurl" :> poll)

ExpInstructions == {<<"dial ">>, <<"dial ", "1">>}
ExpRefs == {<<"2">>, <<"1", "2">>, <<"0", "2">>}
ExpFields ==
    {ExpBody(<<"Ok">>, ins, r, p) : ins \in ExpInstructions, r \in ExpRefs, p \in StdPolls}
ExpBodies ==
    {b @@ ("hash" :> SignedBy(WireText(t, ExpOrder), k)) :
        b \in ExpFields, t \in ExpFields, k \in Keys}

UpdBody(ref, pref, amount, st, poll, tok) ==
    ("reference" :> ref) @@ ("paynowreference" :> pref) @@ ("amount" :> amount)
    @@ ("status" :> st) @@ ("pollurl" :> poll) @@ tok

UpdReferences == {<<"r">>, <<"r", "1">>}
UpdRefs == {<<"2">>, <<"1", "2">>}
UpdAmounts == {<<"1", ".", "5", "0">>}
UpdStatuses == {<<"Paid">>, <<"Awaiting Delivery">>}
UpdTokens ==
    {<<>>, ("token" :> <<"tok">>) @@ ("tokenexpiry" :> <<"0", "5", "Jan", "2", "0", "2", "4">>)}
UpdFields ==
    {UpdBody(ref, pref, a, st, p, tok) :
        ref \in UpdReferences, pref \in UpdRefs, a \in UpdAmounts, st \in UpdStatuses,
        p \in StdPolls, tok \in UpdTokens}
UpdBodies ==
    {b @@ ("hash" :> SignedBy(WireText(t, UpdOrder), k)) :
        b \in UpdFields, t \in UpdFields, k \in Keys}

ErrorTexts ==
    {<<"Invalid Id.">>, <<"Invalid amount field.">>, <<"Conversion overflows.">>,
     <<"Insufficient balance">>, <<"Foo bar">>, <<"invalid id.">>,
     <<"Insufficient balance", ".">>}
ErrorBodies ==
    {("status" :> <<"Error">>) @@ ("error" :> m) : m \in ErrorTexts}
    \cup {("status" :> <<"error">>) @@ ("error" :> <<"Invalid Id.">>)}

NotFoundStatuses == {<<"NotFound">>, <<"Error">>, <<"notfound">>}
NotFoundBodies ==
    {("status" :> st) @@ ("hash" :> SignedBy(t, k)) :
        st \in NotFoundStatuses, t \in NotFoundStatuses, k \in Keys}
    \cup {("status" :> <<"NotFound">>) @@ ("error" :> <<"Invalid Id.">>)
            @@ ("hash" :> SignedBy(<<"Error">>, k)) : k \in Keys}

OtherBodies ==
    {("status" :> <<"Ok">>),
     UpdBody(<<"r">>, <<"x">>, <<"1", ".", "5", "0">>, <<"Paid">>,
             <<"https://", "poll", "/">>, <<>>) @@ ("hash" :> Sha512Hex(<<>>)),
     UpdBody(<<"r">>, <<"2">>, <<"1", ".", "5", "0">>, <<"paid">>,
             <<"https://", "poll", "/">>, <<>>) @@ ("hash" :> Sha512Hex(<<>>))}

\* What the vendor may answer to each operation
BodiesFor(o) ==
    ErrorBodies \cup OtherBodies \cup
    CASE o = "payment" -> StdBodies
      [] o = "express" -> ExpBodies
      [] o = "poll" -> UpdBodies
      [] o = "trace" -> UpdBodies \cup NotFoundBodies
      [] OTHER -> {}

----------------------------------------------------------------------------
(* The state machine: one call at a time on one client *)

NoPayment == [none |-> TRUE]
Pending == [pending |-> TRUE]

Init ==
    /\ client \in {NewClient(id, key) : id \in Ids, key \in Keys}
    /\ pc = "idle"
    /\ op = "none"
    /\ payment = NoPayment
    /\ method = NoMethod
    /\ arg = None
    /\ signed = None
    /\ wire = Empty
    /\ sends = 0
    /\ code = 0
    /\ body = Empty
    /\ result = Pending

\* Client::payment
ClientPayment(reference, amount, return_url, result_url) ==
    /\ pc = "idle"
    /\ pc' = "building"
    /\ op' = "payment"
    /\ payment' = NewPayment(client, reference, amount, return_url, result_url)
    /\ UNCHANGED <<client, method, arg, signed, wire, sends, code, body, result>>

\* Client::express_payment
ExpressPayment(m, reference, amount, result_url, auth_email, merchant_trace) ==
    /\ pc = "idle"
    /\ pc' = "building"
    /\ op' = "express"
    /\ payment' = NewExpressPayment(client, reference, amount, result_url,
                                    auth_email, merchant_trace)
    /\ method' = m
    /\ UNCHANGED <<client, arg, signed, wire, sends, code, body, result>>

Building(o) == pc = "building" /\ op = o

\* Payment::additional_info
AdditionalInfo(info) ==
    /\ Building("payment")
    /\ payment' = [payment EXCEPT !.additional_info = Some(info)]
    /\ UNCHANGED <<client, pc, op, method, arg, signed, wire, sends, code, body, result>>

\* Payment::auth_email
AuthEmail(email) ==
    /\ Building("payment")
    /\ payment' = [payment EXCEPT !.auth_email = Some(email)]
    /\ UNCHANGED <<client, pc, op, method, arg, signed, wire, sends, code, body, result>>

\* Payment::merchant_trace
MerchantTrace(id) ==
    /\ Building("payment")
    /\ payment' = [payment EXCEPT !.merchant_trace = Some(id)]
    /\ UNCHANGED <<client, pc, op, method, arg, signed, wire, sends, code, body, result>>

\* Payment::tokenize
Tokenize(tokenize) ==
    /\ Building("payment")
    /\ payment' = [payment EXCEPT !.tokenize = Some(tokenize)]
    /\ UNCHANGED <<client, pc, op, method, arg, signed, wire, sends, code, body, result>>

\* express::Payment::additional_info
ExpressAdditionalInfo(info) ==
    /\ Building("express")
    /\ payment' = [payment EXCEPT !.additional_info = Some(info)]
    /\ UNCHANGED <<client, pc, op, method, arg, signed, wire, sends, code, body, result>>

\* express::Payment::tokenize
ExpressTokenize(tokenize) ==
    /\ Building("express")
    /\ payment' = [payment EXCEPT !.tokenize = Some(tokenize)]
    /\ UNCHANGED <<client, pc, op, method, arg, signed, wire, sends, code, body, result>>

\* impl Submit for &Payment, up to the transport's send
SubmitPayment ==
    /\ Building("payment")
    /\ signed' = Some(ConcatPayment(payment))
    /\ wire' = PaymentMsg(payment, Hash(client, ConcatPayment(payment)))
    /\ sends' = sends + 1
    /\ pc' = "sending"
    /\ UNCHANGED <<client, op, payment, method, arg, code, body, result>>

\* impl Submit for &express::Payment, up to the transport's send
SubmitExpress ==
    /\ Building("express")
    /\ LET text == ConcatExpressPayment(MethodName(method), payment, MethodArgsFrom(method))
       IN  /\ signed' = Some(text)
           /\ wire' = ExpressMsg(payment, method, Hash(client, text))
    /\ sends' = sends + 1
    /\ pc' = "sending"
    /\ UNCHANGED <<client, op, payment, method, arg, code, body, result>>

\* Client::poll_status, up to the transport's send
PollStatus(poll_url) ==
    /\ pc = "idle"
    /\ op' = "poll"
    /\ arg' = Some(poll_url)
    /\ wire' = Empty
    /\ sends' = sends + 1
    /\ pc' = "sending"
    /\ UNCHANGED <<client, payment, method, signed, code, body, result>>

\* Client::trace_payment, up to the transport's send
TracePayment(merchant_trace) ==
    /\ pc = "idle"
    /\ op' = "trace"
    /\ arg' = Some(merchant_trace)
    /\ signed' = Some(ConcatTrace(client.id, merchant_trace, Message))
    /\ wire' = TraceMsg(client.id, merchant_trace, Message,
                        Hash(client, ConcatTrace(client.id, merchant_trace, Message)))
    /\ sends' = sends + 1
    /\ pc' = "sending"
    /\ UNCHANGED <<client, payment, method, code, body, result>>

\* Fault: a failed send is tried again
SendFails_Retry ==
    /\ pc = "sending"
    /\ sends' = sends + 1
    /\ UNCHANGED <<client, pc, op, payment, method, arg, signed, wire, code, body, result>>

\* Client::submit: request.send() fails
SendFails ==
    /\ pc = "sending"
    /\ result' = Err([kind |-> "SendingRequest"])
    /\ pc' = "done"
    /\ UNCHANGED <<client, op, payment, method, arg, signed, wire, sends, code, body>>

\* Client::submit: request.send() returns the response's head
SendReturns(n) ==
    /\ pc = "sending"
    /\ code' = n
    /\ pc' = "reading"
    /\ UNCHANGED <<client, op, payment, method, arg, signed, wire, sends, body, result>>

\* Client::submit: response.text() fails
TextFails ==
    /\ pc = "reading"
    /\ result' = Err([kind |-> "GettingText"])
    /\ pc' = "done"
    /\ UNCHANGED <<client, op, payment, method, arg, signed, wire, sends, code, body>>

\* Client::submit: response.text() returns, and the operation runs to its end
TextReturns(b) ==
    /\ pc = "reading"
    /\ body' = b
    /\ result' =
         CASE op = "payment" -> SubmitPaymentResult(client, payment, code, b)
           [] op = "express" -> SubmitExpressResult(client, payment, code, b)
           [] op = "poll" -> PollStatusResult(client, code, b)
           [] op = "trace" -> TracePaymentResult(client, arg.some, code, b)
    /\ pc' = "done"
    /\ UNCHANGED <<client, op, payment, method, arg, signed, wire, sends, code>>

\* The caller drops the request and the result: the client is as it was
Drop ==
    /\ pc = "done"
    /\ pc' = "idle"
    /\ op' = "none"
    /\ payment' = NoPayment
    /\ method' = NoMethod
    /\ arg' = None
    /\ signed' = None
    /\ wire' = Empty
    /\ sends' = 0
    /\ code' = 0
    /\ body' = Empty
    /\ result' = Pending
    /\ UNCHANGED client

Next ==
    \/ \E r \in References, a \in Amounts, ru \in ReturnUrls, su \in ResultUrls :
          ClientPayment(r, a, ru, su)
    \/ \E m \in Methods, r \in References, a \in Amounts, su \in ResultUrls,
          e \in Emails, t \in Traces :
          ExpressPayment(m, r, a, su, e, t)
    \/ \E i \in Infos : AdditionalInfo(i)
    \/ \E e \in Emails : AuthEmail(e)
    \/ \E t \in Traces : MerchantTrace(t)
    \/ \E b \in BOOLEAN : Tokenize(b)
    \/ \E i \in Infos : ExpressAdditionalInfo(i)
    \/ \E b \in BOOLEAN : ExpressTokenize(b)
    \/ SubmitPayment
    \/ SubmitExpress
    \/ \E u \in PollUrls : PollStatus(u)
    \/ \E t \in Traces : TracePayment(t)
    \/ SendFails
    \/ \E n \in Codes : SendReturns(n)
    \/ TextFails
    \/ \E b \in BodiesFor(op) : TextReturns(b)
    \/ Drop

Spec == Init /\ [][Next]_vars

----------------------------------------------------------------------------
(* Several calls at a time on one client.  Every call borrows the client   *)
(* (&self, &'a Client) and owns its request, its response and its result:  *)
(* each variable but client holds one value per call.                      *)

Calls == 1..NumCalls

ConcClients == {NewClient(7, key) : key \in Keys}
ConcCodes == {200, 500}
ConcReference == <<"REF-", "1">>
ConcAmount == [mant |-> 150, scale |-> 2]
ConcReturnUrl == <<"https://", "shop", "/", "return">>
ConcResultUrl == <<"https://", "x", "/">>
ConcEmail == <<"a@b.c">>
ConcTrace == <<"trace-", "1">>
ConcMethod == Ecocash(<<"0771111111">>)
ConcPollUrl == <<"https://", "poll", "/">>

ConcErrorBody == ("status" :> <<"Error">>) @@ ("error" :> <<"Invalid Id.">>)
ConcStdBody ==
    LET b == StdBody(<<"Ok">>, <<"https://", "pay", "/">>, <<"https://", "poll", "/">>)
    IN  b @@ ("hash" :> SignedBy(WireText(b, StdOrder), KeyText(1)))
ConcExpBody ==
    LET b == ExpBody(<<"Ok">>, <<"dial ">>, <<"2">>, <<"https://", "poll", "/">>)
    IN  b @@ ("hash" :> SignedBy(WireText(b, ExpOrder), KeyText(1)))
ConcUpdBody ==
    LET b == UpdBody(<<"r">>, <<"2">>, <<"1", ".", "5", "0">>, <<"Paid">>,
                     <<"https://", "poll", "/">>, <<>>)
    IN  b @@ ("hash" :> SignedBy(WireText(b, UpdOrder), KeyText(1)))
ConcNotFoundBody ==
    ("status" :> <<"NotFound">>) @@ ("hash" :> SignedBy(<<"NotFound">>, KeyText(1)))

\* What the vendor may answer to each operation of a concurrent call
ConcBodies(o) ==
    {ConcErrorBody} \cup
    CASE o = "payment" -> {ConcStdBody}
      [] o = "express" -> {ConcExpBody}
      [] o = "poll" -> {ConcUpdBody}
      [] o = "trace" -> {ConcNotFoundBody}
      [] OTHER -> {}

ConcInit ==
    /\ client \in ConcClients
    /\ pc = [i \in Calls |-> "idle"]
    /\ op = [i \in Calls |-> "none"]
    /\ payment = [i \in Calls |-> NoPayment]
    /\ method = [i \in Calls |-> NoMethod]
    /\ arg = [i \in Calls |-> None]
    /\ signed = [i \in Calls |-> None]
    /\ wire = [i \in Calls |-> Empty]
    /\ sends = [i \in Calls |-> 0]
    /\ code = [i \in Calls |-> 0]
    /\ body = [i \in Calls |-> Empty]
    /\ result = [i \in Calls |-> Pending]

\* Client::payment and impl Submit for &Payment of call i, up to the send
ConcSubmitPayment(i) ==
    /\ pc[i] = "idle"
    /\ LET p == NewPayment(client, ConcReference, ConcAmount, ConcReturnUrl, ConcResultUrl)
       IN  /\ payment' = [payment EXCEPT ![i] = p]
           /\ signed' = [signed EXCEPT ![i] = Some(ConcatPayment(p))]
           /\ wire' = [wire EXCEPT ![i] = PaymentMsg(p, Hash(client, ConcatPayment(p)))]
    /\ op' = [op EXCEPT ![i] = "payment"]
    /\ sends' = [sends EXCEPT ![i] = @ + 1]
    /\ pc' = [pc EXCEPT ![i] = "sending"]
    /\ UNCHANGED <<client, method, arg, code, body, result>>

\* Client::express_payment and impl Submit for &express::Payment of call i,
\* up to the send
ConcSubmitExpress(i) ==
    /\ pc[i] = "idle"
    /\ LET p == NewExpressPayment(client, ConcReference, ConcAmount, ConcResultUrl,
                                  ConcEmail, ConcTrace)
           text == ConcatExpressPayment(MethodName(ConcMethod), p,
                                        MethodArgsFrom(ConcMethod))
       IN  /\ payment' = [payment EXCEPT ![i] = p]
           /\ signed' = [signed EXCEPT ![i] = Some(text)]
           /\ wire' = [wire EXCEPT ![i] = ExpressMsg(p, ConcMethod, Hash(client, text))]
    /\ method' = [method EXCEPT ![i] = ConcMethod]
    /\ op' = [op EXCEPT ![i] = "express"]
    /\ sends' = [sends EXCEPT ![i] = @ + 1]
    /\ pc' = [pc EXCEPT ![i] = "sending"]
    /\ UNCHANGED <<client, arg, code, body, result>>

\* Client::poll_status of call i, up to the send
ConcPollStatus(i) ==
    /\ pc[i] = "idle"
    /\ op' = [op EXCEPT ![i] = "poll"]
    /\ arg' = [arg EXCEPT ![i] = Some(ConcPollUrl)]
    /\ sends' = [sends EXCEPT ![i] = @ + 1]
    /\ pc' = [pc EXCEPT ![i] = "sending"]
    /\ UNCHANGED <<client, payment, method, signed, wire, code, body, result>>

\* Client::trace_payment of call i, up to the send
ConcTracePayment(i, merchant_trace) ==
    /\ pc[i] = "idle"
    /\ op' = [op EXCEPT ![i] = "trace"]
    /\ arg' = [arg EXCEPT ![i] = Some(merchant_trace)]
    /\ signed' = [signed EXCEPT ![i] = Some(ConcatTrace(client.id, merchant_trace, Message))]
    /\ wire' = [wire EXCEPT ![i] =
                  TraceMsg(client.id, merchant_trace, Message,
                           Hash(client, ConcatTrace(client.id, merchant_trace, Message)))]
    /\ sends' = [sends EXCEPT ![i] = @ + 1]
    /\ pc' = [pc EXCEPT ![i] = "sending"]
    /\ UNCHANGED <<client, payment, method, code, body, result>>

\* Client::submit of call i: request.send() fails
ConcSendFails(i) ==
    /\ pc[i] = "sending"
    /\ result' = [result EXCEPT ![i] = Err([kind |-> "SendingRequest"])]
    /\ pc' = [pc EXCEPT ![i] = "done"]
    /\ UNCHANGED <<client, op, payment, method, arg, signed, wire, sends, code, body>>

\* Client::submit of call i: request.send() returns the response's head
ConcSendReturns(i, n) ==
    /\ pc[i] = "sending"
    /\ code' = [code EXCEPT ![i] = n]
    /\ pc' = [pc EXCEPT ![i] = "reading"]
    /\ UNCHANGED <<client, op, payment, method, arg, signed, wire, sends, body, result>>

\* Client::submit of call i: response.text() fails
ConcTextFails(i) ==
    /\ pc[i] = "reading"
    /\ result' = [result EXCEPT ![i] = Err([kind |-> "GettingText"])]
    /\ pc' = [pc EXCEPT ![i] = "done"]
    /\ UNCHANGED <<client, op, payment, method, arg, signed, wire, sends, code, body>>

\* Fault: the status of the response kept in one place for all calls
ConcTextReturns_SharedCode(i, b) ==
    /\ pc[i] = "reading"
    /\ body' = [body EXCEPT ![i] = b]
    /\ result' = [result EXCEPT ![i] =
         CASE op[i] = "payment" -> SubmitPaymentResult(client, payment[i], code[1], b)
           [] op[i] = "express" -> SubmitExpressResult(client, payment[i], code[1], b)
           [] op[i] = "poll" -> PollStatusResult(client, code[1], b)
           [] op[i] = "trace" -> TracePaymentResult(client, arg[i].some, code[1], b)]
    /\ pc' = [pc EXCEPT ![i] = "done"]
    /\ UNCHANGED <<client, op, payment, method, arg, signed, wire, sends, code>>

\* Client::submit of call i: response.text() returns, and the operation runs
\* to its end
ConcTextReturns(i, b) ==
    /\ pc[i] = "reading"
    /\ body' = [body EXCEPT ![i] = b]
    /\ result' = [result EXCEPT ![i] =
         CASE op[i] = "payment" -> SubmitPaymentResult(client, payment[i], code[i], b)
           [] op[i] = "express" -> SubmitExpressResult(client, payment[i], code[i], b)
           [] op[i] = "poll" -> PollStatusResult(client, code[i], b)
           [] op[i] = "trace" -> TracePaymentResult(client, arg[i].some, code[i], b)]
    /\ pc' = [pc EXCEPT ![i] = "done"]
    /\ UNCHANGED <<client, op, payment, method, arg, signed, wire, sends, code>>

\* The caller of call i drops the request and the result
ConcDrop(i) ==
    /\ pc[i] = "done"
    /\ pc' = [pc EXCEPT ![i] = "idle"]
    /\ op' = [op EXCEPT ![i] = "none"]
    /\ payment' = [payment EXCEPT ![i] = NoPayment]
    /\ method' = [method EXCEPT ![i] = NoMethod]
    /\ arg' = [arg EXCEPT ![i] = None]
    /\ signed' = [signed EXCEPT ![i] = None]
    /\ wire' = [wire EXCEPT ![i] = Empty]
    /\ sends' = [sends EXCEPT ![i] = 0]
    /\ code' = [code EXCEPT ![i] = 0]
    /\ body' = [body EXCEPT ![i] = Empty]
    /\ result' = [result EXCEPT ![i] = Pending]
    /\ UNCHANGED client

ConcNext ==
    \/ \E i \in Calls : ConcSubmitPayment(i)
    \/ \E i \in Calls : ConcSubmitExpress(i)
    \/ \E i \in Calls : ConcPollStatus(i)
    \/ \E i \in Calls, t \in Traces : ConcTracePayment(i, t)
    \/ \E i \in Calls : ConcSendFails(i)
    \/ \E i \in Calls, n \in ConcCodes : ConcSendReturns(i, n)
    \/ \E i \in Calls : ConcTextFails(i)
    \/ \E i \in Calls : \E b \in ConcBodies(op[i]) : ConcTextReturns(i, b)
    \/ \E i \in Calls : ConcDrop(i)

ConcSpec == ConcInit /\ [][ConcNext]_vars

----------------------------------------------------------------------------
(* Properties *)

Returned == pc = "done" /\ body # Empty
Failed(kind) == ~IsOk(result) /\ result.err.kind = kind
TokenText(u) ==
    IF IsSome(u.token) THEN u.token.some.token \o FormatDate(u.token.some.expiry) ELSE <<>>
UpdateText(u) ==
    u.reference \o U64ToString(u.paynow_reference) \o DecimalToString(u.amount)
    \o <<u.status>> \o u.poll_url \o TokenText(u)
ResponseText(r) == <<"Ok">> \o r.browser_url \o r.poll_url
ExpressResponseText(r) ==
    <<"Ok">> \o r.instructions \o U64ToString(r.paynow_reference) \o r.poll_url
Sign(text, key) == Sha512Hex(text \o key)

\* C1: poll_status and trace_payment return Ok(update) only if the update's
\* hash is sign(reference + paynowreference + amount + status + pollurl +
\* (token + expiry as DDMonYYYY, or nothing without a token), key); a 2xx body
\* that decodes as an update and carries any other hash gives HashMismatch.
C1_UpdateVerified ==
    (Returned /\ op \in {"poll", "trace"}) =>
        /\ IsOk(result) =>
              /\ result.ok.hash = Sign(UpdateText(result.ok), client.key)
              /\ IsSuccess(code) /\ DecodeUpdate(body) = result
        /\ (/\ IsSuccess(code)
            /\ IsOk(DecodeUpdate(body))
            /\ DecodeUpdate(body).ok.hash
                   # Sign(UpdateText(DecodeUpdate(body).ok), client.key))
           => Failed("HashMismatch")

\* C1 witness: trace_payment hands out an update with a token, and its hash is
\* the signature of its fields under the client's key.
C1_Witness ==
    /\ Returned /\ op = "trace" /\ IsOk(result)
    /\ IsSome(result.ok.token)
    /\ result.ok.status = "Awaiting Delivery"

\* C2: a payment submission returns Ok(response) only if the response's hash
\* is sign(status + browserurl + pollurl, key) (standard) or sign(status +
\* instructions + paynowreference + pollurl, key) (express); a 2xx body of the
\* success shape signed with another key gives HashMismatch.
C2_ResponseVerified ==
    /\ (Returned /\ op = "payment") =>
          /\ IsOk(result) =>
                result.ok.hash = Sign(ResponseText(result.ok), client.key)
          /\ (/\ IsSuccess(code)
              /\ IsOk(DecodeResponse(body))
              /\ \E k \in Keys \ {client.key} :
                    body["hash"] = Sign(ResponseText(DecodeResponse(body).ok), k))
             => Failed("HashMismatch")
    /\ (Returned /\ op = "express") =>
          /\ IsOk(result) =>
                result.ok.hash = Sign(ExpressResponseText(result.ok), client.key)
          /\ (/\ IsSuccess(code)
              /\ IsOk(DecodeExpressResponse(body))
              /\ \E k \in Keys \ {client.key} :
                    body["hash"] = Sign(ExpressResponseText(DecodeExpressResponse(body).ok), k))
             => Failed("HashMismatch")

\* C2 witness: a standard payment's 2xx answer of the success shape, signed
\* over the right text with another key, is refused with HashMismatch.
C2_Witness ==
    /\ Returned /\ op = "payment" /\ IsSuccess(code)
    /\ IsOk(DecodeResponse(body))
    /\ \E k \in Keys \ {client.key} :
          body["hash"] = Sign(ResponseText(DecodeResponse(body).ok), k)
    /\ Failed("HashMismatch")

\* The payloads the vendor may have signed, decoded
NoHash == Sha512Hex(<<>>)
UpdPayloads == {DecodeUpdate(f @@ ("hash" :> NoHash)).ok : f \in UpdFields}
StdPayloads ==
    {DecodeResponse(f @@ ("hash" :> NoHash)).ok : f \in {g \in StdFields : g["status"] = <<"Ok">>}}
ExpPayloads == {DecodeExpressResponse(f @@ ("hash" :> NoHash)).ok : f \in ExpFields}
SameFields(p, d) == [p EXCEPT !.hash = d.hash] = d

\* C3 as stated: an inbound payload that carries the hash of a payload valid
\* under the client's key, and differs from that payload in the value of a
\* signed field, fails verification with HashMismatch.
C3_AnyFieldChangeDetected ==
    (Returned /\ IsSuccess(code)) =>
        /\ (op \in {"poll", "trace"} /\ IsOk(DecodeUpdate(body))) =>
              LET d == DecodeUpdate(body).ok
              IN  (\E v \in UpdPayloads :
                      /\ d.hash = Sign(UpdateText(v), client.key)
                      /\ ~SameFields(v, d))
                  => Failed("HashMismatch")
        /\ (op = "payment" /\ IsOk(DecodeResponse(body))) =>
              LET d == DecodeResponse(body).ok
              IN  (\E v \in StdPayloads :
                      /\ d.hash = Sign(ResponseText(v), client.key)
                      /\ ~SameFields(v, d))
                  => Failed("HashMismatch")
        /\ (op = "express" /\ IsOk(DecodeExpressResponse(body))) =>
              LET d == DecodeExpressResponse(body).ok
              IN  (\E v \in ExpPayloads :
                      /\ d.hash = Sign(ExpressResponseText(v), client.key)
                      /\ ~SameFields(v, d))
                  => Failed("HashMismatch")

\* C3 amended: an inbound payload that carries the hash of a payload valid
\* under the client's key, and whose signed fields concatenate to another
\* text than that payload's, fails verification with HashMismatch.
C3_TextChangeDetected ==
    (Returned /\ IsSuccess(code)) =>
        /\ (op \in {"poll", "trace"} /\ IsOk(DecodeUpdate(body))) =>
              LET d == DecodeUpdate(body).ok
              IN  (\E v \in UpdPayloads :
                      /\ d.hash = Sign(UpdateText(v), client.key)
                      /\ UpdateText(v) # UpdateText(d))
                  => Failed("HashMismatch")
        /\ (op = "payment" /\ IsOk(DecodeResponse(body))) =>
              LET d == DecodeResponse(body).ok
              IN  (\E v \in StdPayloads :
                      /\ d.hash = Sign(ResponseText(v), client.key)
                      /\ ResponseText(v) # ResponseText(d))
                  => Failed("HashMismatch")
        /\ (op = "express" /\ IsOk(DecodeExpressResponse(body))) =>
              LET d == DecodeExpressResponse(body).ok
              IN  (\E v \in ExpPayloads :
                      /\ d.hash = Sign(ExpressResponseText(v), client.key)
                      /\ ExpressResponseText(v) # ExpressResponseText(d))
                  => Failed("HashMismatch")

\* C3 witness: a polled update whose status was changed from the one the
\* vendor signed under the client's key is refused with HashMismatch.
C3_Witness ==
    /\ Returned /\ op = "poll" /\ IsSuccess(code) /\ IsOk(DecodeUpdate(body))
    /\ LET d == DecodeUpdate(body).ok
       IN  \E v \in UpdPayloads :
              /\ d.hash = Sign(UpdateText(v), client.key)
              /\ v.status = "Paid" /\ d.status = "Awaiting Delivery"
              /\ [v EXCEPT !.status = d.status, !.hash = d.hash] = d
    /\ Failed("HashMismatch")

\* C4: in a payment submission, a 2xx body that is not of the success shape
\* and is status=Error&error=m is classified by exact match on m; any other m
\* gives the opaque vendor error carrying m.
C4_Classified ==
    (/\ Returned /\ op \in {"payment", "express"} /\ IsSuccess(code)
     /\ ~IsOk(IF op = "payment" THEN DecodeResponse(body) ELSE DecodeExpressResponse(body))
     /\ "status" \in DOMAIN body /\ body["status"] = <<"Error">>
     /\ "error" \in DOMAIN body)
    => LET m == body["error"]
       IN  result = Err(
             IF m = <<"Invalid Id.">> THEN [kind |-> "InvalidId", id |-> client.id]
             ELSE IF m = <<"Invalid amount field.">>
                  THEN [kind |-> "InvalidAmount", amount |-> payment.amount]
             ELSE IF m = <<"Conversion overflows.">>
                  THEN [kind |-> "AmountOverflow", amount |-> payment.amount]
             ELSE IF m = <<"Insufficient balance">> THEN [kind |-> "InsufficientBalance"]
             ELSE [kind |-> "Response", code |-> 200, msg |-> m])

\* C4 witness: an express submission is answered "Invalid amount field." and
\* returns InvalidAmount.
C4_Witness ==
    /\ Returned /\ op = "express" /\ IsSuccess(code)
    /\ "error" \in DOMAIN body /\ body["error"] = <<"Invalid amount field.">>
    /\ body["status"] = <<"Error">>
    /\ Failed("InvalidAmount")

\* C5: when the transport returns a non-success status, every operation
\* returns the Response error with exactly the status and the body received.
C5_NonSuccessIsResponse ==
    (Returned /\ ~(code \in 200..299)) =>
        result = Err([kind |-> "Response", code |-> code, msg |-> body])

\* C5 witness: a poll answered 500 with a validly signed update returns the
\* Response error, not the update.
C5_Witness ==
    /\ Returned /\ op = "poll" /\ code = 500
    /\ IsOk(DecodeUpdate(body))
    /\ body["hash"] = Sign(UpdateText(DecodeUpdate(body).ok), client.key)
    /\ Failed("Response")

RECURSIVE JoinText(_)
JoinText(parts) == IF parts = <<>> THEN <<>> ELSE Head(parts) \o JoinText(Tail(parts))
StartsWith(text, prefix) ==
    Len(text) >= Len(prefix) /\ SubSeq(text, 1, Len(prefix)) = prefix
EndsWith(text, suffix) ==
    Len(text) >= Len(suffix)
    /\ SubSeq(text, Len(text) - Len(suffix) + 1, Len(text)) = suffix
OrEmpty(o) == IF "some" \in DOMAIN o THEN o.some ELSE <<>>
TokenizeText(o) ==
    IF "some" \in DOMAIN o THEN (IF o.some THEN <<"true">> ELSE <<"false">>) ELSE <<>>
\* the payment fields after the id, in the protocol's order
FieldsAfterId(p) ==
    <<p.reference, DecimalToString(p.amount), OrEmpty(p.additional_info),
      OrEmpty(p.return_url), p.result_url, OrEmpty(p.auth_email),
      TokenizeText(p.tokenize), OrEmpty(p.merchant_trace), <<"Message">>>>
Signing == "some" \in DOMAIN signed

\* C6 as stated: the merchant id is in the signed text of a trace lookup only;
\* the text signed for a standard or express submission is made of the other
\* fields alone.
C6_IdOnlyInTrace ==
    /\ (Signing /\ op = "trace") =>
          signed.some = U64ToString(client.id) \o arg.some \o <<"Message">>
    /\ (Signing /\ op = "payment") =>
          signed.some = JoinText(FieldsAfterId(payment))
    /\ (Signing /\ op = "express") =>
          StartsWith(signed.some, MethodName(method) \o JoinText(FieldsAfterId(payment)))

\* C6 amended: the merchant id is in the signed text of a trace lookup (id +
\* merchanttrace + "Message") and of every payment submission too: it is the
\* first field of a standard payment's text and follows the method name in an
\* express payment's; poll_status signs nothing.
C6_IdInEverySignedText ==
    /\ (Signing /\ op = "trace") =>
          signed.some = U64ToString(client.id) \o arg.some \o <<"Message">>
    /\ (Signing /\ op = "payment") =>
          StartsWith(signed.some, U64ToString(client.id) \o payment.reference)
    /\ (Signing /\ op = "express") =>
          StartsWith(signed.some,
                     MethodName(method) \o U64ToString(client.id) \o payment.reference)
    /\ (pc \in {"sending", "reading", "done"} /\ op = "poll") => ~Signing
    /\ (pc \in {"sending", "reading", "done"} /\ op # "poll") => Signing

\* C6 witness: an express payment of merchant 12 has been signed and sent.
C6_Witness ==
    /\ pc = "sending" /\ op = "express" /\ Signing /\ client.id = 12
    /\ wire["id"] = <<"1", "2">>

\* C7: the text signed for a standard payment is id, reference, amount,
\* additionalinfo, returnurl, resulturl, authemail, tokenize, merchanttrace,
\* "Message", directly adjacent; an absent field adds nothing and a tokenize
\* flag adds "true" or "false".
C7_StandardOrder ==
    (Signing /\ op = "payment") =>
        /\ signed.some = U64ToString(payment.id) \o JoinText(FieldsAfterId(payment))
        /\ payment.id = client.id
        /\ wire["hash"] = Sign(signed.some, client.key)

\* C7 witness: a standard payment with tokenize false, a merchant trace and no
\* additional info or auth email has been signed.
C7_Witness ==
    /\ pc = "sending" /\ op = "payment"
    /\ payment.tokenize = [some |-> FALSE]
    /\ "some" \in DOMAIN payment.merchant_trace
    /\ payment.additional_info = None /\ payment.auth_email = None
    /\ signed.some = <<"7", "REF-", "1", "3", "1", "4", ".", "1", "8", "7", "4",
                       "https://", "shop", "/", "return", "https://", "x", "/",
                       "false", "trace-", "2", "Message">>

\* C8: the text of an express payment by Ecocash or OneMoney is the method
\* name, the payment fields and the phone, so it ends with the phone; the same
\* request with the other of the two methods has another text and another
\* signature.
C8_ExpressPhoneText ==
    (Signing /\ op = "express" /\ method.type \in {"Ecocash", "OneMoney"}) =>
        LET name  == IF method.type = "Ecocash" THEN <<"ecocash">> ELSE <<"onemoney">>
            other == IF method.type = "Ecocash"
                     THEN OneMoney(method.phone) ELSE Ecocash(method.phone)
            text  == ConcatExpressPayment(MethodName(other), payment, MethodArgsFrom(other))
        IN  /\ signed.some = name \o U64ToString(client.id)
                                \o JoinText(FieldsAfterId(payment)) \o method.phone
            /\ EndsWith(signed.some, method.phone)
            /\ text # signed.some
            /\ Hash(client, text) # wire["hash"]
            /\ wire["method"] = name
            /\ wire["hash"] = Sign(signed.some, client.key)

\* C8 witness: an Ecocash payment with phone 0771111111 has been signed.
C8_Witness ==
    /\ pc = "sending" /\ op = "express" /\ method.type = "Ecocash"
    /\ method.phone = <<"0771111111">>
    /\ EndsWith(signed.some, <<"Message", "0771111111">>)

NotFoundShaped(b) ==
    /\ "status" \in DOMAIN b /\ b["status"] = <<"NotFound">>
    /\ "hash" \in DOMAIN b

\* C9: trace_payment returns NotFound(merchant trace) only if the 2xx body is
\* of the not-found shape and its hash is sign(status tag, key); a not-found
\* shaped body with another hash gives HashMismatch.
C9_NotFoundVerified ==
    (Returned /\ op = "trace") =>
        /\ Failed("NotFound") =>
              /\ IsSuccess(code) /\ NotFoundShaped(body)
              /\ body["hash"] = Sign(body["status"], client.key)
              /\ result.err.trace = arg.some
        /\ (/\ IsSuccess(code) /\ NotFoundShaped(body)
            /\ body["hash"] # Sign(body["status"], client.key))
           => Failed("HashMismatch")

\* C9 witness: a not-found answer signed with another key, carrying an error
\* field too, is refused with HashMismatch.
C9_Witness ==
    /\ Returned /\ op = "trace" /\ IsSuccess(code) /\ NotFoundShaped(body)
    /\ "error" \in DOMAIN body
    /\ body["hash"] # Sign(body["status"], client.key)
    /\ Failed("HashMismatch")

\* C10 as stated: a 2xx body status=Error&hash=h with h = sign("Error", key)
\* makes trace_payment return NotFound(merchant trace).
C10_ErrorTagIsNotFound ==
    (/\ Returned /\ op = "trace" /\ IsSuccess(code)
     /\ body = ("status" :> <<"Error">>) @@ ("hash" :> Sign(<<"Error">>, client.key)))
    => result = Err([kind |-> "NotFound", trace |-> arg.some])

\* C10 amended: a 2xx body status=NotFound&hash=h with h = sign("NotFound",
\* key) makes trace_payment return NotFound(merchant trace); the body
\* status=Error&hash=h with h = sign("Error", key) is no not-found shape and
\* gives UnexpectedResponse with the body.
C10_NotFoundTag ==
    (Returned /\ op = "trace" /\ IsSuccess(code)) =>
        /\ body = ("status" :> <<"NotFound">>)
                    @@ ("hash" :> Sign(<<"NotFound">>, client.key))
           => result = Err([kind |-> "NotFound", trace |-> arg.some])
        /\ body = ("status" :> <<"Error">>) @@ ("hash" :> Sign(<<"Error">>, client.key))
           => (Failed("UnexpectedResponse") /\ result.err.msg = body)

\* C10 witness: trace_payment of trace-2 is answered status=NotFound with the
\* right hash and returns NotFound(trace-2).
C10_Witness ==
    /\ Returned /\ op = "trace" /\ code = 200
    /\ body = ("status" :> <<"NotFound">>) @@ ("hash" :> Sign(<<"NotFound">>, client.key))
    /\ result = Err([kind |-> "NotFound", trace |-> <<"trace-", "2">>])

VendorError(b) ==
    /\ "status" \in DOMAIN b /\ b["status"] = <<"Error">>
    /\ "error" \in DOMAIN b

\* C11: in poll_status and trace_payment a 2xx vendor error body
\* status=Error&error=m gives a structured kind for every row of the table:
\* "Invalid Id." InvalidId, "Invalid amount field." InvalidAmount,
\* "Conversion overflows." AmountOverflow, "Insufficient balance"
\* InsufficientBalance, any other m the opaque error carrying m.
C11_StatusErrorsClassified ==
    (/\ Returned /\ op \in {"poll", "trace"} /\ IsSuccess(code)
     /\ ~IsOk(DecodeUpdate(body))
     /\ VendorError(body))
    => LET m == body["error"]
       IN  IF m = <<"Invalid Id.">>
             THEN result = Err([kind |-> "InvalidId", id |-> client.id])
           ELSE IF m = <<"Invalid amount field.">> THEN Failed("InvalidAmount")
           ELSE IF m = <<"Conversion overflows.">> THEN Failed("AmountOverflow")
           ELSE IF m = <<"Insufficient balance">>
             THEN result = Err([kind |-> "InsufficientBalance"])
           ELSE result = Err([kind |-> "Response", code |-> 200, msg |-> m])

\* What does hold there: the rows without an amount are classified, and the
\* two amount rows come back as UnexpectedResponse with the body.
StatusErrorsAsCoded ==
    (/\ Returned /\ op \in {"poll", "trace"} /\ IsSuccess(code)
     /\ ~IsOk(DecodeUpdate(body))
     /\ VendorError(body))
    => LET m == body["error"]
       IN  IF m = <<"Invalid Id.">>
             THEN result = Err([kind |-> "InvalidId", id |-> client.id])
           ELSE IF m \in {<<"Invalid amount field.">>, <<"Conversion overflows.">>}
             THEN result = Err([kind |-> "UnexpectedResponse",
                                error |-> [decoding |-> "status::Update"],
                                msg |-> body])
           ELSE IF m = <<"Insufficient balance">>
             THEN result = Err([kind |-> "InsufficientBalance"])
           ELSE result = Err([kind |-> "Response", code |-> 200, msg |-> m])

\* The shape an operation asks Client::submit to decode
SuccessShape(o) ==
    CASE o = "payment" -> "payment::Response"
      [] o = "express" -> "express::Response"
      [] OTHER -> "status::Update"

DecodesAsSuccess(o, b) ==
    CASE o = "payment" -> IsOk(DecodeResponse(b))
      [] o = "express" -> IsOk(DecodeExpressResponse(b))
      [] OTHER -> IsOk(DecodeUpdate(b))

KnowsNoShape(o, b) ==
    /\ ~DecodesAsSuccess(o, b)
    /\ ~IsOk(DecodeErrorResponse(b))
    /\ o = "trace" => ~IsOk(DecodeNotFound(b))

\* C12: a 2xx body that decodes as none of the shapes the operation knows
\* yields UnexpectedResponse with the decode error of the first attempt (the
\* success shape) and the raw body; never a later attempt's error, never Ok.
C12_FirstDecodeErrorKept ==
    (Returned /\ IsSuccess(code) /\ KnowsNoShape(op, body))
    => result = Err([kind |-> "UnexpectedResponse",
                     error |-> [decoding |-> SuccessShape(op)],
                     msg |-> body])

C12_Witness ==
    /\ Returned /\ op = "express" /\ code = 204
    /\ body = ("status" :> <<"Ok">>)
    /\ result = Err([kind |-> "UnexpectedResponse",
                     error |-> [decoding |-> "express::Response"],
                     msg |-> body])

\* C13: the status tags are fixed literals: a body decodes as a submission's
\* success shape only with status exactly "Ok", as the vendor-error shape
\* only with "Error", as the not-found shape only with "NotFound"; so no
\* submission returns Ok for a body whose status is anything else, however
\* its hash was made.
C13_LiteralTags ==
    Returned =>
        /\ (IsOk(DecodeResponse(body)) \/ IsOk(DecodeExpressResponse(body)))
              => body["status"] = <<"Ok">>
        /\ IsOk(DecodeErrorResponse(body)) => body["status"] = <<"Error">>
        /\ IsOk(DecodeNotFound(body)) => body["status"] = <<"NotFound">>
        /\ (op \in {"payment", "express"} /\ IsOk(result))
              => body["status"] = <<"Ok">>
        /\ (op = "trace" /\ Failed("NotFound")) => body["status"] = <<"NotFound">>
        /\ (IsSuccess(code) /\ (Failed("InvalidId") \/ Failed("InsufficientBalance")))
              => body["status"] = <<"Error">>

\* C13 witness: a standard submission is answered 200 with status=ok and the
\* hash the client would compute for status=Ok under its own key; the
\* result is UnexpectedResponse, not Ok.
C13_Witness ==
    /\ Returned /\ op = "payment" /\ code = 200
    /\ "browserurl" \in DOMAIN body /\ "pollurl" \in DOMAIN body
    /\ body["status"] = <<"ok">>
    /\ body["hash"] = Sign(<<"Ok">> \o body["browserurl"] \o body["pollurl"], client.key)
    /\ result = Err([kind |-> "UnexpectedResponse",
                     error |-> [decoding |-> "payment::Response"],
                     msg |-> body])

\* C14: for every canonical string c the client signs and every key k,
\* validate_hash under k accepts what hash made of c under k, and that hash
\* is the digest of c directly followed by k (key last, nothing in between);
\* under any other key the same hash is refused.
C14_HashRoundTrip ==
    Signing =>
        /\ wire["hash"] = [sha512 |-> signed.some \o client.key]
        /\ \A k \in Keys :
              LET c == [client EXCEPT !.key = k]
              IN  /\ Hash(c, signed.some) = [sha512 |-> signed.some \o k]
                  /\ ValidateHash(c, Hash(c, signed.some), signed.some) = Valid
                  /\ \A other \in Keys \ {k} :
                        ValidateHash([client EXCEPT !.key = other],
                                     Hash(c, signed.some), signed.some)
                        = [kind |-> "HashMismatch", msg |-> signed.some]

\* C14 witness: a trace lookup has signed its canonical string and sent it.
C14_Witness ==
    /\ pc = "sending" /\ op = "trace" /\ Signing
    /\ wire["hash"] = [sha512 |-> signed.some \o client.key]
    /\ ValidateHash(client, wire["hash"], signed.some) = Valid

\* C15: no operation is retried: every operation invokes the transport at
\* most once; a send failure ends it with SendingRequest and a body-read
\* failure with GettingText, and a finished operation takes no further step
\* but being dropped.
C15_NoRetry ==
    [][/\ sends' <= 1
       /\ sends' # sends =>
             \/ sends = 0 /\ pc \in {"idle", "building"} /\ pc' = "sending"
             \/ sends' = 0 /\ pc = "done" /\ pc' = "idle"
       /\ pc = "sending" =>
             \/ pc' = "reading" /\ result' = Pending
             \/ pc' = "done" /\ result' = Err([kind |-> "SendingRequest"])
       /\ (pc = "reading" /\ body' = Empty) =>
             (pc' = "done" /\ result' = Err([kind |-> "GettingText"]))
       /\ pc = "done" => pc' = "idle"]_vars

\* C15 witness: an express submission whose body could not be read has ended
\* with GettingText after one call of the transport.
C15_Witness ==
    /\ pc = "done" /\ op = "express" /\ sends = 1 /\ code = 200
    /\ result = Err([kind |-> "GettingText"])

\* What an operation returns when it runs alone: its own request, the
\* response given to it, and the client.
RunAlone(c, o, p, a, n, b) ==
    IF n = 0 THEN Err([kind |-> "SendingRequest"])
    ELSE IF b = Empty THEN Err([kind |-> "GettingText"])
    ELSE CASE o = "payment" -> SubmitPaymentResult(c, p, n, b)
           [] o = "express" -> SubmitExpressResult(c, p, n, b)
           [] o = "poll" -> PollStatusResult(c, n, b)
           [] o = "trace" -> TracePaymentResult(c, a.some, n, b)

\* C16: with any number of calls interleaved on one client, no step changes
\* the client's id, key or base URL, no step of one call changes what
\* another call holds, and every call that ends holds the result it would
\* return alone for its own request and its own response.
C16_CallsIsolated ==
    [][/\ client' = client
       /\ \A i \in Calls :
             /\ pc'[i] = "done" =>
                   result'[i] = RunAlone(client, op'[i], payment'[i], arg'[i],
                                         code'[i], body'[i])
             /\ pc'[i] = pc[i] =>
                   /\ result'[i] = result[i] /\ body'[i] = body[i]
                   /\ code'[i] = code[i] /\ wire'[i] = wire[i]
                   /\ payment'[i] = payment[i] /\ arg'[i] = arg[i]]_vars

\* C16 witness: two calls of the same operation have both ended, one
\* answered 200 and one answered 500 with the same body, each with its own
\* result.
C16_Witness ==
    /\ pc[1] = "done" /\ pc[2] = "done"
    /\ op[1] = "payment" /\ op[2] = "payment"
    /\ code[1] = 500 /\ code[2] = 200
    /\ body[1] = body[2] /\ body[2] # Empty
    /\ ~IsOk(result[1]) /\ result[1].err = [kind |-> "Response", code |-> 500, msg |-> body[1]]
    /\ IsOk(result[2])

\* The text of an express payment's standard fields, with no return URL
ExpressFieldsText(p) ==
    U64ToString(p.id) \o p.reference \o DecimalToString(p.amount)
    \o OrEmpty(p.additional_info) \o p.result_url \o p.auth_email.some
    \o TokenizeText(p.tokenize) \o p.merchant_trace.some

\* C17: from express_payment on, through any setters of the express builder
\* and the submission, the request has no return URL, has the auth email and
\* the merchant trace given at construction and the method given at
\* construction; the text it signs and the form it sends carry no return URL.
C17_ExpressShape ==
    [][/\ \A e \in Emails, t \in Traces, su \in ResultUrls :
             LET p == NewExpressPayment(client, <<"r">>, [mant |-> 1, scale |-> 0], su, e, t)
             IN  /\ p.return_url = [none |-> TRUE]
                 /\ p.auth_email = [some |-> e] /\ p.merchant_trace = [some |-> t]
       /\ op' = "express" =>
             /\ payment'.return_url = [none |-> TRUE]
             /\ "some" \in DOMAIN payment'.auth_email
             /\ "some" \in DOMAIN payment'.merchant_trace
             /\ method' \in Methods
             /\ op = "express" =>
                   /\ payment'.auth_email = payment.auth_email
                   /\ payment'.merchant_trace = payment.merchant_trace
                   /\ method' = method
             /\ "some" \in DOMAIN signed' =>
                   /\ StartsWith(signed'.some,
                                 MethodName(method') \o ExpressFieldsText(payment'))
                   /\ "returnurl" \notin DOMAIN wire'
                   /\ wire'["authemail"] = payment'.auth_email.some
                   /\ wire'["merchanttrace"] = payment'.merchant_trace.some
                   /\ wire'["method"] = MethodName(method')]_vars

\* C17 witness: an express payment built with trace-2, then given additional
\* info and tokenize, has been signed and sent without a return URL.
C17_Witness ==
    /\ pc = "sending" /\ op = "express" /\ Signing
    /\ payment.additional_info = [some |-> <<"info">>]
    /\ payment.tokenize = [some |-> TRUE]
    /\ payment.return_url = [none |-> TRUE]
    /\ "returnurl" \notin DOMAIN wire
    /\ wire["authemail"] = <<"a@b.c">>
    /\ wire["merchanttrace"] = <<"trace-", "2">>
    /\ method.type = "OneMoney"

VendorErrorKinds ==
    {"InvalidId", "InvalidAmount", "AmountOverflow", "InsufficientBalance", "Response"}

\* C18: a 2xx body that does not decode as the success shape and decodes as
\* status=Error&error=m gives, in every operation, one of InvalidId,
\* InvalidAmount, AmountOverflow, InsufficientBalance or the opaque error,
\* the same under every integration key, and is never put to a hash check.
C18_ErrorsUnauthenticated ==
    (Returned /\ IsSuccess(code) /\ ~DecodesAsSuccess(op, body) /\ VendorError(body))
    => /\ ~IsOk(result) /\ result.err.kind \in VendorErrorKinds
       /\ \A k \in Keys :
             RunAlone([client EXCEPT !.key = k], op, payment, arg, code, body) = result
       /\ ~Failed("HashMismatch")

\* What does hold there: whatever the result is, it is the same under every
\* key and it is not HashMismatch.
ErrorsKeyIndependent ==
    (Returned /\ IsSuccess(code) /\ ~DecodesAsSuccess(op, body) /\ VendorError(body))
    => /\ ~IsOk(result)
       /\ result.err.kind \in VendorErrorKinds \cup {"UnexpectedResponse"}
       /\ (op \in {"payment", "express"}) => result.err.kind \in VendorErrorKinds
       /\ \A k \in Keys :
             RunAlone([client EXCEPT !.key = k], op, payment, arg, code, body) = result
       /\ ~Failed("HashMismatch")

====
